---------------------------- MODULE Spec2Model ----------------------------
(***************************************************************************)
(* A model of FileSystemDatasource (src/src/datasource.ts): the            *)
(* constructor's backend selection, the process-wide table cache, the      *)
(* cache-or-fetch pipeline with its parser dispatch, and the multi-target  *)
(* query with its Promise.all join.                                        *)
(*                                                                         *)
(* JavaScript strings are sequences of one-character strings, with the     *)
(* 0-based indices of lastIndexOf/substring/substr kept as they are.       *)
(***************************************************************************)
EXTENDS Integers, Sequences, FiniteSets, TLC

VARIABLES
    fs,        \* per instance: the backend chosen by the constructor
    ctorArg,   \* per instance: the jsonData.type the constructor was given
    tests,     \* per instance: the state of its testDatasource() call
    cache,     \* FileSystemDatasource.cache, the static Map, in insertion order
    queries,   \* the query() calls made so far, each with its Promise.all state
    clock,     \* Date.now()
    puts,      \* history: per path, the tables stored by cache.set, in order
    pin,       \* parser dispatch: the (path, content-type) under inspection
    pout,      \* parser dispatch: what lines 138-166 computed for pin
    listed,    \* history: per instance, what the list("") of its test settled with
    cin,       \* changes transform: the table under inspection
    cout       \* changes transform: the SeriesInfo computed for cin

vars == <<fs, ctorArg, tests, cache, queries, clock, puts, pin, pout, listed, cin, cout>>

\* undefined / absent
None == "undefined"

(***************************************************************************)
(* Strings                                                                 *)
(***************************************************************************)
Avro == <<"a", "v", "r", "o">>
AvroUpper == <<"A", "v", "R", "o">>
Json == <<"j", "s", "o", "n">>
JsonUpper == <<"J", "S", "O", "N">>
Csv == <<"c", "s", "v">>
Empty == <<>>

\* String.prototype.toLowerCase on the letters the model uses
LowerChar(c) ==
    CASE c = "A" -> "a"
      [] c = "R" -> "r"
      [] c = "J" -> "j"
      [] c = "S" -> "s"
      [] c = "O" -> "o"
      [] c = "N" -> "n"
      [] OTHER -> c

ToLowerCase(s) == [k \in 1..Len(s) |-> LowerChar(s[k])]

\* String.prototype.lastIndexOf(ch): 0-based, -1 when absent
LastIndexOf(s, ch) ==
    LET hits == {k \in 1..Len(s) : s[k] = ch}
    IN  IF hits = {} THEN -1
        ELSE (CHOOSE k \in hits : \A j \in hits : j <= k) - 1

\* String.prototype.substring(0, end)
Substring0(s, end) == SubSeq(s, 1, end)

\* String.prototype.substr(start)
Substr(s, start) == SubSeq(s, start + 1, Len(s))

\* String.prototype.indexOf(needle) >= 0
IndexOfFound(s, needle) ==
    \E k \in 0..(Len(s) - Len(needle)) :
        SubSeq(s, k + 1, k + Len(needle)) = needle

(***************************************************************************)
(* Parser dispatch: _fetchOrUseCached, lines 138-166                       *)
(***************************************************************************)
\* lines 139-152: the extension of a path
Ext(path) ==
    LET idx1  == LastIndexOf(path, "?")
        norm1 == IF idx1 > 0 THEN Substring0(path, idx1) ELSE path
        idx2  == LastIndexOf(norm1, "#")
        norm2 == IF idx2 > 0 THEN Substring0(path, idx2) ELSE norm1
        idx3  == LastIndexOf(norm2, ".")
    IN  IF idx3 > 0 THEN ToLowerCase(Substr(norm2, idx3 + 1)) ELSE Empty

\* line 155
IsAvro(path) == Ext(path) = Avro

\* line 156
IsBinary(path) == IsAvro(path)

\* lines 159-160: res.headers()["content-type"]; has = FALSE when the header is
\* absent (undefined)
Header(text) == [has |-> TRUE, text |-> text]
NoHeader == [has |-> FALSE, text |-> Empty]

\* line 162: contentType && contentType.indexOf("json") >= 0
SaysJson(contentType) ==
    contentType.has /\ contentType.text # Empty /\ IndexOfFound(contentType.text, Json)

\* a mutant of ChooseParser: the extension is looked at before the content-type
ChooseParserExtFirst(contentType, isAvro) ==
    IF isAvro THEN "avro"
    ELSE IF SaysJson(contentType) THEN "json"
    ELSE "csv"

\* lines 161-166: the key of this.parsers that is used
ChooseParser(contentType, isAvro) ==
    IF SaysJson(contentType) THEN "json"
    ELSE IF isAvro THEN "avro"
    ELSE "csv"

\* lines 45-47: the parsers the constructor registers
ParserKinds == {"csv", "avro", "json"}


(***************************************************************************)
(* Construction: lines 32-69                                               *)
(***************************************************************************)
NumInstances == 2
Instances == 1..NumInstances

\* lines 51, 57, 63: the own properties of the registry object literal
RegistryOwn == {"local", "nginx", "s3"}

\* line 50: registry is a plain object literal, so registry[type] also finds
\* what every object inherits from Object.prototype
ObjectPrototypeProps == {"constructor", "toString", "valueOf", "hasOwnProperty"}

\* the values of jsonData.type the model constructs instances with
TypeInputs == RegistryOwn \cup {"hdfs", None, "toString", "constructor"}

\* lines 54, 60, 66: what each registered builder creates
Created(type) ==
    CASE type = "local" -> "LocalFileSystem"
      [] type = "nginx" -> "NginxFileSystem"
      [] type = "s3"    -> "S3FileSystem"

\* line 38: FileSystemDatasource.registry[type]
RegistryLookup(type) ==
    IF type \in RegistryOwn THEN [truthy |-> TRUE, hasCreate |-> TRUE, type |-> type]
    ELSE IF type \in ObjectPrototypeProps
         THEN [truthy |-> TRUE, hasCreate |-> FALSE, type |-> type]
    ELSE [truthy |-> FALSE, hasCreate |-> FALSE, type |-> type]

\* lines 37-43: the backend the constructor ends with, or the TypeError of
\* calling builder.create when builder has no create
ConstructorFs(type) ==
    LET builder == RegistryLookup(type)
    IN  IF builder.truthy
        THEN IF builder.hasCreate THEN Created(builder.type) ELSE "TypeError"
        ELSE "UnknownFileSystem"

FileSystems == {"LocalFileSystem", "NginxFileSystem", "S3FileSystem", "UnknownFileSystem"}

\* new FileSystemDatasource({jsonData: {type: type}}, ...)
Construct(i, type) ==
    /\ fs[i] = "NotConstructed"
    /\ fs' = [fs EXCEPT ![i] = ConstructorFs(type)]
    /\ ctorArg' = [ctorArg EXCEPT ![i] = type]
    /\ UNCHANGED <<tests, cache, queries, clock, puts, pin, pout, listed, cin, cout>>

(***************************************************************************)
(* testDatasource: lines 182-204                                           *)
(***************************************************************************)
MaxFiles == 1

\* what list("") can resolve to: a DirectoryInfo with n files, or one without files
DirInfos == {[hasFiles |-> TRUE, n |-> n] : n \in 0..MaxFiles}
                \cup {[hasFiles |-> FALSE, n |-> 0]}

\* what list("") can reject with: text is String(err); cancelled and err are
\* the truthiness of err.cancelled and err.err; nullish: err is null/undefined
ListErrors ==
    { [text |-> "NotFoundError", cancelled |-> FALSE, err |-> FALSE, nullish |-> FALSE],
      [text |-> "[object Object]", cancelled |-> TRUE, err |-> TRUE, nullish |-> FALSE],
      [text |-> "[object Object]", cancelled |-> TRUE, err |-> FALSE, nullish |-> FALSE],
      [text |-> "undefined", cancelled |-> FALSE, err |-> FALSE, nullish |-> TRUE] }

UnsupportedBackendError ==
    [text |-> "UnsupportedBackendError", cancelled |-> FALSE, err |-> FALSE, nullish |-> FALSE]

DirTypeError ==
    [text |-> "TypeError", cancelled |-> FALSE, err |-> FALSE, nullish |-> FALSE]

\* the messages of lines 190, 197, 200; count is -1 where the message has none
RootMessage(n) == [text |-> "Root Contains # Files", count |-> n, err |-> ""]
ErrorMessage(text) == [text |-> "Error: ", count |-> -1, err |-> text]
HttpMessage ==
    [text |-> "Error making HTTP request.  Check the javascrit console for more information",
     count |-> -1, err |-> ""]
NoMessage == [text |-> "", count |-> -1, err |-> ""]

NotTested == [settled |-> "none", status |-> None, message |-> NoMessage]
TestPending == [settled |-> "pending", status |-> None, message |-> NoMessage]

\* list("") has not settled
NotListed ==
    [how |-> "none", dir |-> [hasFiles |-> FALSE, n |-> 0], err |-> DirTypeError]

\* lines 193-203: the catch handler; reading err.cancelled of a nullish err throws
CatchHandler(err) ==
    IF err.nullish
    THEN [settled |-> "rejected", status |-> None, message |-> ErrorMessage("TypeError")]
    ELSE [settled |-> "resolved", status |-> "error",
          message |-> IF err.cancelled /\ err.err THEN HttpMessage
                      ELSE ErrorMessage(err.text)]

\* lines 187-192: the then handler; dir.files.length of a dir without files throws
\* into the catch handler
ThenHandler(dir) ==
    IF dir.hasFiles
    THEN [settled |-> "resolved", status |-> "success",
          message |-> RootMessage(dir.n)]
    ELSE CatchHandler(DirTypeError)

\* line 185-186: testDatasource() calls this.fs.list("")
TestDatasource(i) ==
    /\ fs[i] \in FileSystems
    /\ tests[i].settled # "pending"
    /\ tests' = [tests EXCEPT ![i] = TestPending]
    /\ listed' = [listed EXCEPT ![i] = NotListed]
    /\ UNCHANGED <<fs, ctorArg, cache, queries, clock, puts, pin, pout, cin, cout>>

\* the backend's list("") resolves
ListResolve(i, dir) ==
    /\ tests[i].settled = "pending"
    /\ fs[i] # "UnknownFileSystem"
    /\ tests' = [tests EXCEPT ![i] = ThenHandler(dir)]
    /\ listed' = [listed EXCEPT ![i] = [how |-> "resolved", dir |-> dir, err |-> DirTypeError]]
    /\ UNCHANGED <<fs, ctorArg, cache, queries, clock, puts, pin, pout, cin, cout>>

\* the backend's list("") rejects; the unknown backend rejects every list
ListReject(i, err) ==
    /\ tests[i].settled = "pending"
    /\ fs[i] = "UnknownFileSystem" => err = UnsupportedBackendError
    /\ fs[i] # "UnknownFileSystem" => err \in ListErrors
    /\ tests' = [tests EXCEPT ![i] = CatchHandler(err)]
    /\ listed' = [listed EXCEPT ![i] =
                     [how |-> "rejected", dir |-> [hasFiles |-> FALSE, n |-> 0], err |-> err]]
    /\ UNCHANGED <<fs, ctorArg, cache, queries, clock, puts, pin, pout, cin, cout>>

(***************************************************************************)
(* Tables and the changes transform (response_parser)                      *)
(***************************************************************************)
\* the tables a parser can produce, by name
TableIds == {"T1", "T2"}

\* T1 is a changes table (key, x, y); T2 has no value columns for the transform
TableOf(id) ==
    IF id = "T1"
    THEN [columns |-> <<"key", "x", "y">>,
          rows |-> << <<"x", 1, 10>>, <<"y", 1, 20>>, <<"x", 2, 15>> >>]
    ELSE [columns |-> <<"name", "value">>,
          rows |-> << <<"a", 1>>, <<"b", 2>> >>]

NoSeries == [order |-> <<>>, series |-> [n \in {} |-> <<>>]]

\* a mutant of AddRow: a new series key goes to the front of the order
AddRowNewestFirst(info, row) ==
    LET key == row[1]
        pt  == <<row[2], row[3]>>
    IN  IF key \in DOMAIN info.series
        THEN [info EXCEPT !.series[key] = Append(@, pt)]
        ELSE [order  |-> <<key>> \o info.order,
              series |-> [n \in (DOMAIN info.series) \cup {key} |->
                             IF n = key THEN <<pt>> ELSE info.series[n]]]

\* one row of the transform's linear pass
AddRow(info, row) ==
    LET key == row[1]
        pt  == <<row[2], row[3]>>
    IN  IF key \in DOMAIN info.series
        THEN [info EXCEPT !.series[key] = Append(@, pt)]
        ELSE [order  |-> Append(info.order, key),
              series |-> [n \in (DOMAIN info.series) \cup {key} |->
                             IF n = key THEN <<pt>> ELSE info.series[n]]]

RECURSIVE ChangesPass(_, _, _)
ChangesPass(rows, k, info) ==
    IF k > Len(rows) THEN info
    ELSE ChangesPass(rows, k + 1, AddRow(info, rows[k]))

\* processChanges(table): a SeriesInfo, or a TransformError when the key or
\* value columns are absent
ProcessChanges(table) ==
    IF Len(table.columns) < 3
    THEN [ok |-> FALSE, info |-> NoSeries]
    ELSE [ok |-> TRUE, info |-> ChangesPass(table.rows, 1, NoSeries)]

(***************************************************************************)
(* The cache: lines 14-18 and 131                                          *)
(***************************************************************************)
\* lines 14-18: a CachedTable
CachedTable(path, table, timestamp) ==
    [path |-> path, table |-> table, timestamp |-> timestamp]

\* Map.prototype.get: the value under key k, defined = FALSE when there is none
MapGet(m, k) ==
    IF \E j \in 1..Len(m) : m[j].key = k
    THEN LET j == CHOOSE j \in 1..Len(m) : m[j].key = k
         IN  [defined |-> TRUE, value |-> m[j].value]
    ELSE [defined |-> FALSE, value |-> CachedTable(k, None, 0)]

\* a mutant of MapSet: an existing entry is kept
MapSetKeepFirst(m, k, v) ==
    IF \E j \in 1..Len(m) : m[j].key = k THEN m
    ELSE Append(m, [key |-> k, value |-> v])

\* a mutant of MapSet: every set adds an entry
MapSetAppend(m, k, v) == Append(m, [key |-> k, value |-> v])

\* Map.prototype.set: replaces the value of an existing key in place
MapSet(m, k, v) ==
    IF \E j \in 1..Len(m) : m[j].key = k
    THEN [j \in 1..Len(m) |-> IF m[j].key = k THEN [key |-> k, value |-> v] ELSE m[j]]
    ELSE Append(m, [key |-> k, value |-> v])

(***************************************************************************)
(* _fetchOrUseCached: lines 132-175                                        *)
(***************************************************************************)
PathA == <<"a", ".">> \o Avro
PathB == <<"b", ".">> \o Csv

\* the paths the queries of the model ask for; Empty is the empty/absent path
TargetPaths == {Empty, PathA, PathB}
ReqPaths == TargetPaths \ {Empty}

\* a mutant of CacheOf: every instance has a cache of its own
CacheOfInstance(inst) ==
    SelectSeq(cache, LAMBDA e : puts[e.key][Len(puts[e.key])].by = inst)

\* line 131: the cache is a static member, one Map for all instances
CacheOf(inst) == cache

NoError == "none"

\* lines 133-158: the call up to its return: a resolved promise on a hit,
\* the promise of this.fs.fetch(path, isBinary) on a miss.  seenFirst, seenLast
\* and seenBy record the history of the path at the time of the call: the first
\* and the latest table stored for it and the instance that stored the latest;
\* at is the timestamp of the entry the call stores (line 170); calls counts
\* the calls of fs.fetch (line 158) the resolution has made.
FetchOrUseCached(inst, path, changes) ==
    LET t    == MapGet(CacheOf(inst), path)
        hit  == t.defined /\ t.value.table # None
        hist == puts[path]
    IN  [req       |-> path,
         changes   |-> changes,
         how       |-> IF hit THEN "hit" ELSE "fetch",
         binary    |-> IF hit THEN FALSE ELSE IsBinary(path),
         calls     |-> IF hit THEN 0 ELSE 1,
         status    |-> IF hit THEN "ok" ELSE "pending",
         table     |-> IF hit THEN t.value.table ELSE None,
         error     |-> NoError,
         at        |-> -1,
         seenFirst |-> IF hist = <<>> THEN None ELSE hist[1].table,
         seenLast  |-> IF hist = <<>> THEN None ELSE hist[Len(hist)].table,
         seenBy    |-> IF hist = <<>> THEN 0 ELSE hist[Len(hist)].by]

\* the content-type headers, the encodings and the responses of the model
ContentTypes == {NoHeader, Header(Json)}
Payloads ==
    { [enc |-> "csv", table |-> "T2"], [enc |-> "avro", table |-> "T1"],
      [enc |-> "json", table |-> "T1"], [enc |-> "json", table |-> "T2"] }
Responses ==
    { [contentType |-> c, enc |-> p.enc, table |-> p.table] :
          c \in ContentTypes, p \in Payloads }

\* parser.parse(res, contentType): the table, or a FormatError when the
\* payload is not in the parser's format
Parse(parser, res) ==
    IF res.enc = parser THEN [ok |-> TRUE, table |-> res.table]
    ELSE [ok |-> FALSE, table |-> None]

\* what fs.fetch rejects with
FetchErrors == {"FetchError"}

(***************************************************************************)
(* query: lines 91-129                                                     *)
(***************************************************************************)
MaxQueries == 2
MaxTargets == 2
\* the number of this.fs.fetch calls the model follows
MaxFetches == 2

Target(path, changes) == [path |-> path, changes |-> changes]

RECURSIVE SlotFetches(_)
SlotFetches(slots) ==
    IF slots = <<>> THEN 0
    ELSE (IF Head(slots).how = "fetch" THEN 1 ELSE 0) + SlotFetches(Tail(slots))

\* the number of this.fs.fetch calls the queries qs have made
RECURSIVE Fetches(_)
Fetches(qs) ==
    IF qs = <<>> THEN 0 ELSE SlotFetches(Head(qs).slots) + Fetches(Tail(qs))

\* a mutant of FilterPath: no target is dropped
FilterNone(targets) == targets

\* lines 95-96: options.targets.filter(target => target.path)
RECURSIVE FilterPath(_)
FilterPath(targets) ==
    IF targets = <<>> THEN <<>>
    ELSE IF Head(targets).path # Empty
         THEN <<Head(targets)>> \o FilterPath(Tail(targets))
         ELSE FilterPath(Tail(targets))

\* line 98: templateSrv.replace(target.path, options.scopedVars); the paths of
\* the model hold no variable reference, which replace leaves as they are
Replace(path) == path

\* lines 113-119: one entry per name of info.order
SeriesEntries(info) ==
    [k \in 1..Len(info.order) |->
        [kind       |-> "series",
         target     |-> info.order[k],
         alias      |-> info.order[k],
         datapoints |-> info.series[info.order[k]],
         table      |-> None]]

\* line 122: the table itself
TableEntry(id) ==
    [kind |-> "table", target |-> None, alias |-> None, datapoints |-> <<>>, table |-> id]

\* a mutant of ThenCallback: the changes flag is ignored
ThenCallbackRaw(changes, id) ==
    [ok |-> TRUE, v |-> <<TableEntry(id)>>]

\* lines 109-123: the then callback of one target
ThenCallback(changes, id) ==
    IF changes
    THEN LET r == ProcessChanges(TableOf(id))
         IN  [ok |-> r.ok, v |-> SeriesEntries(r.info)]
    ELSE [ok |-> TRUE, v |-> <<TableEntry(id)>>]

NotDone == [done |-> FALSE, v |-> <<>>]

\* a mutant of StoreResult: the values are collected in order of arrival
StoreResultArrival(values, i, v) ==
    LET free == {k \in 1..Len(values) : ~values[k].done}
        k    == CHOOSE k \in free : \A j \in free : k <= j
    IN  [values EXCEPT ![k] = [done |-> TRUE, v |-> v]]

\* line 126, Promise.all: the value of promise i goes to index i
StoreResult(values, i, v) == [values EXCEPT ![i] = [done |-> TRUE, v |-> v]]

\* line 127: _.flattenDeep(data)
RECURSIVE FlattenDeep(_)
FlattenDeep(values) ==
    IF values = <<>> THEN <<>>
    ELSE Head(values).v \o FlattenDeep(Tail(values))

\* a mutant of AllDone: the join resolves with the first value
AnyDone(values) == \E k \in 1..Len(values) : values[k].done

\* line 126, Promise.all: it resolves when every promise has resolved
AllDone(values) == \A k \in 1..Len(values) : values[k].done

\* line 126, Promise.all: promise i of query record qr resolved with v
AllFulfil(qr, i, v) ==
    LET vals == StoreResult(qr.values, i, v)
    IN  IF qr.state = "pending" /\ AllDone(vals)
        THEN [qr EXCEPT !.values = vals, !.state = "resolved",
                        !.data = FlattenDeep(vals)]
        ELSE [qr EXCEPT !.values = vals]

\* a mutant of AllReject: the rejection of one promise is swallowed
AllRejectSwallowed(qr, i, err) ==
    AllFulfil(qr, i, <<>>)

\* a mutant of AllReject: the rejection of a target is not passed on
AllRejectIgnored(qr, i, err) == qr

\* line 126, Promise.all: promise i of query record qr rejected with err
AllReject(qr, i, err) ==
    IF qr.state = "pending"
    THEN [qr EXCEPT !.state = "rejected", !.error = err]
    ELSE qr

\* lines 109-126: _fetchOrUseCached(target.req) of target i resolved with table id
TargetResolved(qr, i, id) ==
    LET r == ThenCallback(qr.slots[i].changes, id)
    IN  IF r.ok THEN AllFulfil(qr, i, r.v)
        ELSE AllReject(qr, i, "TransformError")

\* the promise reactions of the cache hits of a new query, in target order
RECURSIVE SettleHits(_, _)
SettleHits(qr, i) ==
    IF i > Len(qr.slots) THEN qr
    ELSE IF qr.slots[i].how = "hit"
         THEN SettleHits(TargetResolved(qr, i, qr.slots[i].table), i + 1)
         ELSE SettleHits(qr, i + 1)

\* lines 91-128: query(options) on instance inst
QueryCall(inst, targets) ==
    LET queryTargets == FilterPath(targets)
        slots == [k \in 1..Len(queryTargets) |->
                     FetchOrUseCached(inst, Replace(queryTargets[k].path),
                                      queryTargets[k].changes)]
        qr == [inst    |-> inst,
               targets |-> targets,
               slots   |-> slots,
               values  |-> [k \in 1..Len(queryTargets) |-> NotDone],
               state   |-> "pending",
               data    |-> <<>>,
               error   |-> NoError]
    IN  IF Len(queryTargets) = 0
        THEN [qr EXCEPT !.state = "resolved"]
        ELSE SettleHits(qr, 1)

\* the target lists of at most MaxTargets targets out of options
TargetSeqs(options) == UNION {[1..n -> options] : n \in 0..MaxTargets}

Query(inst, targets) ==
    /\ Len(queries) < MaxQueries
    /\ fs[inst] \in FileSystems
    /\ Fetches(Append(queries, QueryCall(inst, targets))) <= MaxFetches
    /\ queries' = Append(queries, QueryCall(inst, targets))
    /\ UNCHANGED <<fs, ctorArg, tests, cache, clock, puts, pin, pout, listed, cin, cout>>

\* a mutant of FetchResolve: a response that does not parse is stored as an
\* entry without a table
FetchResolveStoreFailed(q, i, res) ==
    LET qr     == queries[q]
        slot   == qr.slots[i]
        parser == ChooseParser(res.contentType, IsAvro(slot.req))
        parsed == Parse(parser, res)
    IN  /\ slot.status = "pending"
        /\ fs[qr.inst] # "UnknownFileSystem"
        /\ clock' = clock + 1
        /\ cache' = MapSet(cache, slot.req,
                           CachedTable(slot.req,
                                       IF parsed.ok THEN parsed.table ELSE None,
                                       clock))
        /\ IF parsed.ok
           THEN /\ puts' = [puts EXCEPT ![slot.req] =
                              Append(@, [table |-> parsed.table, by |-> qr.inst])]
                /\ queries' = [queries EXCEPT ![q] =
                      TargetResolved(
                          [qr EXCEPT !.slots[i].status = "ok",
                                     !.slots[i].table = parsed.table,
                                     !.slots[i].at = clock],
                          i, parsed.table)]
           ELSE /\ UNCHANGED puts
                /\ queries' = [queries EXCEPT ![q] =
                      AllReject(
                          [qr EXCEPT !.slots[i].status = "failed",
                                     !.slots[i].error = "FormatError"],
                          i, "FormatError")]
        /\ UNCHANGED <<fs, ctorArg, tests, pin, pout, listed, cin, cout>>

\* a mutant of FetchResolve: the table of a fetch that completes after its
\* query was rejected is not stored
FetchResolveDropLate(q, i, res) ==
    LET qr     == queries[q]
        slot   == qr.slots[i]
        parser == ChooseParser(res.contentType, IsAvro(slot.req))
        parsed == Parse(parser, res)
    IN  /\ slot.status = "pending"
        /\ fs[qr.inst] # "UnknownFileSystem"
        /\ IF parsed.ok
           THEN /\ clock' = clock + 1
                /\ cache' = IF qr.state = "rejected" THEN cache
                            ELSE MapSet(cache, slot.req,
                                        CachedTable(slot.req, parsed.table, clock))
                /\ puts' = IF qr.state = "rejected" THEN puts
                           ELSE [puts EXCEPT ![slot.req] =
                                   Append(@, [table |-> parsed.table, by |-> qr.inst])]
                /\ queries' = [queries EXCEPT ![q] =
                      TargetResolved(
                          [qr EXCEPT !.slots[i].status = "ok",
                                     !.slots[i].table = parsed.table,
                                     !.slots[i].at = clock],
                          i, parsed.table)]
           ELSE /\ UNCHANGED <<cache, puts, clock>>
                /\ queries' = [queries EXCEPT ![q] =
                      AllReject(
                          [qr EXCEPT !.slots[i].status = "failed",
                                     !.slots[i].error = "FormatError"],
                          i, "FormatError")]
        /\ UNCHANGED <<fs, ctorArg, tests, pin, pout, listed, cin, cout>>

\* lines 158-174: the fetch of target i of query q resolves with res
FetchResolve(q, i, res) ==
    LET qr     == queries[q]
        slot   == qr.slots[i]
        parser == ChooseParser(res.contentType, IsAvro(slot.req))
        parsed == Parse(parser, res)
    IN  /\ slot.status = "pending"
        /\ fs[qr.inst] # "UnknownFileSystem"
        /\ IF parsed.ok
           THEN /\ clock' = clock + 1
                /\ cache' = MapSet(cache, slot.req,
                                   CachedTable(slot.req, parsed.table, clock))
                /\ puts' = [puts EXCEPT ![slot.req] =
                              Append(@, [table |-> parsed.table, by |-> qr.inst])]
                /\ queries' = [queries EXCEPT ![q] =
                      TargetResolved(
                          [qr EXCEPT !.slots[i].status = "ok",
                                     !.slots[i].table = parsed.table,
                                     !.slots[i].at = clock],
                          i, parsed.table)]
           ELSE /\ UNCHANGED <<cache, puts, clock>>
                /\ queries' = [queries EXCEPT ![q] =
                      AllReject(
                          [qr EXCEPT !.slots[i].status = "failed",
                                     !.slots[i].error = "FormatError"],
                          i, "FormatError")]
        /\ UNCHANGED <<fs, ctorArg, tests, pin, pout, listed, cin, cout>>

\* a mutant of FetchReject: a rejected fetch is issued once more
FetchRejectRetry(q, i, err) ==
    LET qr == queries[q]
    IN  /\ qr.slots[i].status = "pending"
        /\ fs[qr.inst] = "UnknownFileSystem" => err = "UnsupportedBackendError"
        /\ fs[qr.inst] # "UnknownFileSystem" => err \in FetchErrors
        /\ queries' = [queries EXCEPT ![q] =
              IF qr.slots[i].calls < 2
              THEN [qr EXCEPT !.slots[i].calls = @ + 1]
              ELSE AllReject([qr EXCEPT !.slots[i].status = "failed",
                                        !.slots[i].error = err], i, err)]
        /\ UNCHANGED <<fs, ctorArg, tests, cache, clock, puts, pin, pout, listed, cin, cout>>

\* line 158: the fetch of target i of query q rejects with err; the unknown
\* backend rejects every fetch
FetchReject(q, i, err) ==
    LET qr == queries[q]
    IN  /\ qr.slots[i].status = "pending"
        /\ fs[qr.inst] = "UnknownFileSystem" => err = "UnsupportedBackendError"
        /\ fs[qr.inst] # "UnknownFileSystem" => err \in FetchErrors
        /\ queries' = [queries EXCEPT ![q] =
              AllReject([qr EXCEPT !.slots[i].status = "failed",
                                   !.slots[i].error = err], i, err)]
        /\ UNCHANGED <<fs, ctorArg, tests, cache, clock, puts, pin, pout, listed, cin, cout>>

(***************************************************************************)
(* Specifications                                                          *)
(***************************************************************************)
\* the jsonData.type of the instances of the process
InstanceType(i) ==
    CASE i = 1 -> "local"
      [] i = 2 -> "hdfs"
      [] OTHER -> "s3"

NoTable == [columns |-> <<"key", "x", "y">>, rows |-> <<>>]
NoChanges == [runs |-> 0, ok |-> FALSE, first |-> NoSeries, last |-> NoSeries]

NoInput == [path |-> Empty, contentType |-> NoHeader]
NoOutput == [done |-> FALSE, ext |-> Empty, isBinary |-> FALSE, parser |-> None]

\* the datasource instances are constructed; nothing is cached or queried
Init ==
    /\ fs = [i \in Instances |-> ConstructorFs(InstanceType(i))]
    /\ ctorArg = [i \in Instances |-> InstanceType(i)]
    /\ tests = [i \in Instances |-> NotTested]
    /\ cache = <<>>
    /\ queries = <<>>
    /\ clock = 0
    /\ puts = [p \in TargetPaths |-> <<>>]
    /\ pin = NoInput
    /\ pout = NoOutput
    /\ listed = [i \in Instances |-> NotListed]
    /\ cin = NoTable
    /\ cout = NoChanges

\* the steps of the pipeline, for queries on the instances insts with targets
\* out of options
Pipeline(insts, options) ==
    \/ \E inst \in insts, targets \in TargetSeqs(options) : Query(inst, targets)
    \/ \E q \in 1..Len(queries) : \E i \in 1..Len(queries[q].slots) :
          \E res \in Responses : FetchResolve(q, i, res)
    \/ \E q \in 1..Len(queries) : \E i \in 1..Len(queries[q].slots) :
          \E err \in FetchErrors \cup {"UnsupportedBackendError"} :
              FetchReject(q, i, err)

\* queries of one instance for one path, raw and through the changes transform
QueryTargets == {Target(PathA, FALSE), Target(PathA, TRUE)}

Next == Pipeline({1}, QueryTargets)

Spec == Init /\ [][Next]_vars

\* queries of one instance with targets that have no path
EmptyTargets == {Target(Empty, FALSE), Target(PathB, TRUE)}

NextEmpty == Pipeline({1}, EmptyTargets)

SpecEmpty == Init /\ [][NextEmpty]_vars

\* queries of one instance for the raw tables of two paths
CacheTargets == {Target(PathA, FALSE), Target(PathB, FALSE)}

NextCache == Pipeline({1}, CacheTargets)

SpecCache == Init /\ [][NextCache]_vars

\* queries of every instance for the raw table of one path
SharedTargets == {Target(PathB, FALSE)}

NextShared == Pipeline(Instances, SharedTargets)

SpecShared == Init /\ [][NextShared]_vars

\* construction and connectivity check: no instance is constructed yet
InitConstruct ==
    /\ fs = [i \in Instances |-> "NotConstructed"]
    /\ ctorArg = [i \in Instances |-> None]
    /\ tests = [i \in Instances |-> NotTested]
    /\ cache = <<>>
    /\ queries = <<>>
    /\ clock = 0
    /\ puts = [p \in TargetPaths |-> <<>>]
    /\ pin = NoInput
    /\ pout = NoOutput
    /\ listed = [i \in Instances |-> NotListed]
    /\ cin = NoTable
    /\ cout = NoChanges

NextConstruct ==
    \/ \E i \in Instances, type \in TypeInputs : Construct(i, type)
    \/ \E i \in Instances : TestDatasource(i)
    \/ \E i \in Instances, dir \in DirInfos : ListResolve(i, dir)
    \/ \E i \in Instances, err \in ListErrors \cup {UnsupportedBackendError} :
          ListReject(i, err)

SpecConstruct == InitConstruct /\ [][NextConstruct]_vars

\* parser dispatch on its own: the paths are built of at most MaxTokens tokens
MaxTokens == 4
PathTokens == {<<"x">>, <<".">>, <<"?">>, <<"#">>, Avro, AvroUpper}

RECURSIVE Concat(_)
Concat(tokens) == IF tokens = <<>> THEN <<>> ELSE Head(tokens) \o Concat(Tail(tokens))

DispatchPaths ==
    {Concat(ts) : ts \in UNION {[1..n -> PathTokens] : n \in 0..MaxTokens}}

DispatchContentTypes ==
    {NoHeader, Header(Empty), Header(Json), Header(<<"a", "/">> \o Json \o <<";">>),
     Header(JsonUpper), Header(Csv), Header(<<"j", "s", "o">>)}

InitDispatch ==
    /\ fs = [i \in Instances |-> ConstructorFs(InstanceType(i))]
    /\ ctorArg = [i \in Instances |-> InstanceType(i)]
    /\ tests = [i \in Instances |-> NotTested]
    /\ cache = <<>>
    /\ queries = <<>>
    /\ clock = 0
    /\ puts = [p \in TargetPaths |-> <<>>]
    /\ pin \in [path : DispatchPaths, contentType : DispatchContentTypes]
    /\ pout = NoOutput
    /\ listed = [i \in Instances |-> NotListed]
    /\ cin = NoTable
    /\ cout = NoChanges

\* lines 138-166 on the path and the content-type of pin
Dispatch ==
    /\ ~pout.done
    /\ pout' = [done     |-> TRUE,
                ext      |-> Ext(pin.path),
                isBinary |-> IsBinary(pin.path),
                parser   |-> ChooseParser(pin.contentType, IsAvro(pin.path))]
    /\ UNCHANGED <<fs, ctorArg, tests, cache, queries, clock, puts, pin, listed, cin, cout>>

NextDispatch == Dispatch

SpecDispatch == InitDispatch /\ [][NextDispatch]_vars

\* the fetch of target i of query q settles: it resolves or it rejects
FetchSettles(q, i) ==
    /\ q <= Len(queries)
    /\ i <= Len(queries[q].slots)
    /\ \/ \E err \in FetchErrors \cup {"UnsupportedBackendError"} :
              FetchReject(q, i, err)
       \/ \E res \in Responses : FetchResolve(q, i, res)

\* queries of one instance for one path through the changes transform, every
\* fetch issued (line 158) settling in the end: no timeout or cancellation is
\* managed by the datasource, the backend completes or fails each request
LiveTargets == {Target(PathA, TRUE)}

NextLive == Pipeline({1}, LiveTargets)

SpecLive ==
    /\ Init
    /\ [][NextLive]_vars
    /\ \A q \in 1..MaxQueries : \A i \in 1..MaxTargets : WF_vars(FetchSettles(q, i))

\* the changes transform on its own: the rows of a (key, x, y) table out of
\* small value sets, MaxRows of them at most, transformed MaxRuns times
MaxRows == 3
MaxRuns == 2
SeriesKeys == {"x", "y"}
XValues == {1, 2}
YValues == {10, 15, 20}
ChangesRows == SeriesKeys \X XValues \X YValues
ChangesTables ==
    [columns : {<<"key", "x", "y">>},
     rows    : UNION {[1..n -> ChangesRows] : n \in 0..MaxRows}]

InitChanges ==
    /\ fs = [i \in Instances |-> ConstructorFs(InstanceType(i))]
    /\ ctorArg = [i \in Instances |-> InstanceType(i)]
    /\ tests = [i \in Instances |-> NotTested]
    /\ cache = <<>>
    /\ queries = <<>>
    /\ clock = 0
    /\ puts = [p \in TargetPaths |-> <<>>]
    /\ pin = NoInput
    /\ pout = NoOutput
    /\ listed = [i \in Instances |-> NotListed]
    /\ cin \in ChangesTables
    /\ cout = NoChanges

\* line 111: processChanges(table) on the table cin, once more
Changes ==
    /\ cout.runs < MaxRuns
    /\ LET r == ProcessChanges(cin)
       IN  cout' = [runs  |-> cout.runs + 1,
                    ok    |-> r.ok,
                    first |-> IF cout.runs = 0 THEN r.info ELSE cout.first,
                    last  |-> r.info]
    /\ UNCHANGED <<fs, ctorArg, tests, cache, queries, clock, puts, pin, pout, listed, cin>>

NextChanges == Changes

SpecChanges == InitChanges /\ [][NextChanges]_vars

(***************************************************************************)
(* Properties                                                              *)
(***************************************************************************)
\* the _fetchOrUseCached calls made so far: target i of query q
CallIds == {c \in (1..Len(queries)) \X (1..(MaxTargets + 1)) :
               c[2] <= Len(queries[c[1]].slots)}
SlotOf(c) == queries[c[1]].slots[c[2]]
QueryIds == 1..Len(queries)

C2_SingleFlight ==
    \A c, d \in CallIds :
        ( /\ SlotOf(c).req = SlotOf(d).req
          /\ SlotOf(c).how = "fetch" /\ SlotOf(c).status = "pending"
          /\ SlotOf(d).how = "fetch" /\ SlotOf(d).status = "pending" )
        => c = d

AllEmpty(targets) == \A k \in 1..Len(targets) : targets[k].path = Empty

\* C3: a query whose targets all have an empty path is resolved with no data
\* and has made no _fetchOrUseCached call: no cache access, no fetch.
C3_EmptyQuery ==
    \A q \in QueryIds :
        AllEmpty(queries[q].targets) =>
            /\ queries[q].state = "resolved"
            /\ queries[q].data = <<>>
            /\ queries[q].slots = <<>>
            /\ queries[q].values = <<>>

\* a resolved query of two empty targets, made while the cache holds a table
C3_Witness ==
    \E q \in QueryIds :
        /\ Len(queries[q].targets) >= 2
        /\ AllEmpty(queries[q].targets)
        /\ queries[q].state = "resolved"
        /\ cache # <<>>

\* what the target of call slot contributes to the response
Contribution(slot) ==
    IF slot.changes
    THEN SeriesEntries(ProcessChanges(TableOf(slot.table)).info)
    ELSE <<TableEntry(slot.table)>>

RECURSIVE InTargetOrder(_, _)
InTargetOrder(slots, k) ==
    IF k > Len(slots) THEN <<>>
    ELSE Contribution(slots[k]) \o InTargetOrder(slots, k + 1)

\* C4: the data of a resolved query are the contributions of its targets in
\* target order, whatever the order the fetches completed in.
C4_TargetOrder ==
    \A q \in QueryIds :
        queries[q].state = "resolved" =>
            queries[q].data = InTargetOrder(queries[q].slots, 1)

\* a resolved query of a raw and a changes target whose second fetch
\* completed before its first
C4_Witness ==
    \E q \in QueryIds :
        /\ queries[q].state = "resolved"
        /\ Len(queries[q].slots) = 2
        /\ queries[q].slots[1].changes # queries[q].slots[2].changes
        /\ queries[q].slots[1].how = "fetch"
        /\ queries[q].slots[2].how = "fetch"
        /\ queries[q].slots[2].at < queries[q].slots[1].at
        /\ Len(queries[q].data) = 3

\* C5: a query with a failed target is rejected and delivers no data; a
\* resolved query has all its targets resolved.
C5_AllOrNothing ==
    \A q \in QueryIds :
        /\ (\E i \in 1..Len(queries[q].slots) : queries[q].slots[i].status = "failed")
              => queries[q].state = "rejected" /\ queries[q].data = <<>>
        /\ queries[q].state = "resolved"
              => \A i \in 1..Len(queries[q].slots) : queries[q].slots[i].status = "ok"
        /\ queries[q].state = "rejected" => queries[q].data = <<>>

\* a rejected query one target of which had resolved with a table
C5_Witness ==
    \E q \in QueryIds :
        /\ queries[q].state = "rejected"
        /\ queries[q].data = <<>>
        /\ \E i, j \in 1..Len(queries[q].slots) :
              /\ queries[q].slots[i].status = "ok"
              /\ queries[q].values[i].done
              /\ queries[q].slots[j].status = "failed"

AnyPending(q) ==
    \E i \in 1..Len(queries[q].slots) : queries[q].slots[i].status = "pending"

\* C6, as stated: a query that has settled, resolved or rejected, has no
\* pending target.
C6_SettlesAfterAll ==
    \A q \in QueryIds : queries[q].state # "pending" => ~AnyPending(q)

\* C6, amended: all fetches of a query are issued by the call; the query does
\* not resolve while a target is pending, and it stays pending only while one
\* is; it rejects with the first failure, also while other targets are pending.
C6_ResolvesAfterAll ==
    \A q \in QueryIds :
        /\ queries[q].state = "resolved" => ~AnyPending(q)
        /\ queries[q].state = "pending" => AnyPending(q)
        /\ \A i \in 1..Len(queries[q].slots) :
              queries[q].slots[i].how = "fetch" \/ queries[q].slots[i].status = "ok"

\* a query that resolved after both of its fetches
C6_Witness ==
    \E q \in QueryIds :
        /\ queries[q].state = "resolved"
        /\ Len(queries[q].slots) = 2
        /\ \A i \in 1..2 : queries[q].slots[i].how = "fetch"
                             /\ queries[q].slots[i].status = "ok"

\* C7: a call on an instance for a path whose cached table another instance
\* stored is a cache hit that resolves to that table, without a fetch.
C7_SharedCache ==
    \A c \in CallIds :
        (SlotOf(c).seenBy # 0 /\ SlotOf(c).seenBy # queries[c[1]].inst) =>
            /\ SlotOf(c).how = "hit"
            /\ SlotOf(c).table = SlotOf(c).seenLast

\* the instance with the unknown backend hits the table another instance stored
C7_Witness ==
    \E c \in CallIds :
        /\ SlotOf(c).seenBy # 0
        /\ SlotOf(c).seenBy # queries[c[1]].inst
        /\ fs[queries[c[1]].inst] # fs[SlotOf(c).seenBy]
        /\ SlotOf(c).how = "hit"
        /\ SlotOf(c).table \in TableIds

\* C8: the cache holds at most one entry per path, each entry records the path
\* it is stored under, and the entry of a path holds the latest table stored.
C8_OnePerPath ==
    /\ \A j, k \in 1..Len(cache) : cache[j].key = cache[k].key => j = k
    /\ \A j \in 1..Len(cache) : cache[j].value.path = cache[j].key
    /\ \A p \in ReqPaths :
          puts[p] # <<>> =>
              \E j \in 1..Len(cache) :
                  /\ cache[j].key = p
                  /\ cache[j].value.table = puts[p][Len(puts[p])].table
    /\ Len(cache) = Cardinality({p \in ReqPaths : puts[p] # <<>>})

\* a path stored twice, with different tables, and one entry for it
C8_Witness ==
    \E p \in ReqPaths :
        /\ Len(puts[p]) = 2
        /\ puts[p][1].table # puts[p][2].table
        /\ Len(cache) = 1
        /\ cache[1].value.table = puts[p][2].table

\* C9: constructing with a type that is not a registered kind completes with
\* the unknown backend.
C9_UnknownBackend ==
    \A i \in Instances :
        (fs[i] # "NotConstructed" /\ ctorArg[i] \notin RegistryOwn)
            => fs[i] = "UnknownFileSystem"

\* the content-type holds "json" somewhere
HoldsJson(contentType) ==
    /\ contentType.has
    /\ \E k \in 0..Len(contentType.text) :
          /\ k + 4 <= Len(contentType.text)
          /\ contentType.text[k + 1] = "j" /\ contentType.text[k + 2] = "s"
          /\ contentType.text[k + 3] = "o" /\ contentType.text[k + 4] = "n"

\* C10: for every path and content-type one registered parser is chosen: json
\* when the content-type holds "json", else avro when the extension is avro,
\* else csv, which is also the choice without header and extension.
C10_ParserTotal ==
    pout.done =>
        /\ pout.parser \in ParserKinds
        /\ pout.parser = "json" <=> HoldsJson(pin.contentType)
        /\ pout.parser = "avro" <=> (~HoldsJson(pin.contentType) /\ pout.ext = Avro)
        /\ pout.parser = "csv" <=> (~HoldsJson(pin.contentType) /\ pout.ext # Avro)
        /\ (~pin.contentType.has /\ pout.ext = Empty) => pout.parser = "csv"

\* csv is chosen for a path without extension fetched without content-type
C10_Witness ==
    /\ pout.done
    /\ ~pin.contentType.has
    /\ pin.path # Empty
    /\ pout.ext = Empty
    /\ pout.parser = "csv"

\* C11: testDatasource never rejects: it resolves with success and the file
\* count when list("") resolved, with error and a message when it rejected,
\* the request-level message for an error carrying cancelled and err, the
\* error text otherwise.
C11_TestNeverRejects ==
    \A i \in Instances :
        /\ tests[i].settled # "rejected"
        /\ (tests[i].settled = "resolved" /\ listed[i].how = "resolved") =>
              /\ tests[i].status = "success"
              /\ tests[i].message = RootMessage(listed[i].dir.n)
        /\ (tests[i].settled = "resolved" /\ listed[i].how = "rejected") =>
              /\ tests[i].status = "error"
              /\ tests[i].message =
                    IF listed[i].err.cancelled /\ listed[i].err.err
                    THEN HttpMessage ELSE ErrorMessage(listed[i].err.text)

\* C12: the contribution of a target is decided by its changes flag: one
\* entry per series name of the transform's order, in that order, with target
\* and alias the name and the datapoints of the series, when the flag is set;
\* the raw table, as a single entry, when it is not.
C12_ContributionByFlag ==
    \A c \in CallIds :
        LET slot == SlotOf(c)
            val  == queries[c[1]].values[c[2]]
            r    == ProcessChanges(TableOf(slot.table))
        IN  /\ val.done => slot.status = "ok"
            /\ (slot.status = "ok" /\ (slot.changes => r.ok)) => val.done
            /\ (val.done /\ slot.changes) =>
                  /\ Len(val.v) = Len(r.info.order)
                  /\ \A k \in 1..Len(val.v) :
                        /\ val.v[k].kind = "series"
                        /\ val.v[k].target = r.info.order[k]
                        /\ val.v[k].alias = r.info.order[k]
                        /\ val.v[k].datapoints = r.info.series[r.info.order[k]]
            /\ (val.done /\ ~slot.changes) =>
                  /\ Len(val.v) = 1
                  /\ val.v[1].kind = "table"
                  /\ val.v[1].table = slot.table

\* one query holds the named series of a changes target and the raw table of
\* a target without the flag, both of the same fetched table
C12_Witness ==
    \E q \in QueryIds :
        /\ Len(queries[q].slots) = 2
        /\ queries[q].slots[1].changes /\ ~queries[q].slots[2].changes
        /\ queries[q].values[1].done /\ queries[q].values[2].done
        /\ queries[q].slots[1].table = "T1" /\ queries[q].slots[2].table = "T1"
        /\ Len(queries[q].values[1].v) = 2
        /\ queries[q].values[1].v[1].target = "x"
        /\ queries[q].values[1].v[2].target = "y"
        /\ queries[q].values[2].v = <<TableEntry("T1")>>

\* the series keys of rows, the row a key first occurs in and the [x, y]
\* pairs of the rows of a key, in row order
KeysOf(rows) == {rows[k][1] : k \in 1..Len(rows)}
FirstRowOf(rows, key) ==
    CHOOSE k \in 1..Len(rows) :
        rows[k][1] = key /\ \A j \in 1..(k - 1) : rows[j][1] # key
PointsOf(rows, key) ==
    LET HasKey(row) == row[1] = key
        sel == SelectSeq(rows, HasKey)
    IN  [k \in 1..Len(sel) |-> <<sel[k][2], sel[k][3]>>]
ExampleRows == << <<"x", 1, 10>>, <<"y", 1, 20>>, <<"x", 2, 15>> >>

\* C13: the order of the changes transform lists exactly the series keys of
\* the rows, each once, in first-occurrence order; every series holds the
\* [x, y] pairs of its rows in row order; the rows of the example give order
\* [x, y], x = [[1,10],[2,15]], y = [[1,20]]; a repeated run gives the same
\* result.
C13_ChangesTransform ==
    cout.runs >= 1 =>
        LET info == cout.last
            n    == Len(info.order)
        IN  /\ cout.ok
            /\ \A j, k \in 1..n : info.order[j] = info.order[k] => j = k
            /\ {info.order[k] : k \in 1..n} = KeysOf(cin.rows)
            /\ \A j, k \in 1..n :
                  j < k => FirstRowOf(cin.rows, info.order[j])
                              < FirstRowOf(cin.rows, info.order[k])
            /\ DOMAIN info.series = KeysOf(cin.rows)
            /\ \A key \in KeysOf(cin.rows) :
                  info.series[key] = PointsOf(cin.rows, key)
            /\ cin.rows = ExampleRows =>
                  /\ info.order = <<"x", "y">>
                  /\ info.series["x"] = << <<1, 10>>, <<2, 15>> >>
                  /\ info.series["y"] = << <<1, 20>> >>
            /\ cout.first = cout.last

\* the example table, transformed twice
C13_Witness ==
    /\ cout.runs = 2
    /\ cin.rows = ExampleRows
    /\ cout.last.order = <<"x", "y">>
    /\ Len(cout.last.series["x"]) = 2

\* the calls that fetched path p and stored a table
StoredFetches(p) ==
    {c \in CallIds : /\ SlotOf(c).req = p
                     /\ SlotOf(c).how = "fetch"
                     /\ SlotOf(c).status = "ok"}

\* C14: every call for a path that is not cached calls the backend, also
\* while another fetch of the path is in flight; every fetch that completes
\* writes the cache; and the entry of the path holds the table of the fetch
\* that completed last, whichever was issued first.
C14_LastWriteWins ==
    /\ \A c \in CallIds : SlotOf(c).seenLast = None => SlotOf(c).how = "fetch"
    /\ \A p \in ReqPaths :
          /\ Len(puts[p]) = Cardinality(StoredFetches(p))
          /\ \A d \in StoredFetches(p) :
                (\A c \in StoredFetches(p) : SlotOf(c).at <= SlotOf(d).at) =>
                    /\ MapGet(cache, p).defined
                    /\ MapGet(cache, p).value.table = SlotOf(d).table
                    /\ MapGet(cache, p).value.timestamp = SlotOf(d).at

\* two overlapping fetches of one uncached path, the one issued first
\* completing last: its table is the one in the cache
C14_Witness ==
    \E c, d \in CallIds :
        /\ c[1] < d[1] \/ (c[1] = d[1] /\ c[2] < d[2])
        /\ SlotOf(c).req = SlotOf(d).req
        /\ SlotOf(c).seenLast = None /\ SlotOf(d).seenLast = None
        /\ SlotOf(c).status = "ok" /\ SlotOf(d).status = "ok"
        /\ SlotOf(c).table # SlotOf(d).table
        /\ SlotOf(d).at < SlotOf(c).at
        /\ MapGet(cache, SlotOf(c).req).value.table = SlotOf(c).table

\* a step in which the pending resolution c fails
Fails(c) ==
    /\ SlotOf(c).status = "pending"
    /\ queries'[c[1]].slots[c[2]].status = "failed"

\* C15: a failed resolution leaves the cache unchanged: the step in which a
\* fetch rejects or a parser throws changes no entry of any path and rejects
\* with that error; no entry without a table is ever stored.
C15_FailureKeepsCache ==
    /\ [](\A j \in 1..Len(cache) : cache[j].value.table \in TableIds)
    /\ [][\A c \in CallIds :
             Fails(c) =>
                /\ cache' = cache
                /\ puts' = puts
                /\ queries'[c[1]].slots[c[2]].error \in FetchErrors \cup {"FormatError"}
                /\ queries'[c[1]].slots[c[2]].table = None
                /\ queries'[c[1]].state = "rejected"
                /\ queries[c[1]].state = "pending" =>
                      queries'[c[1]].error = queries'[c[1]].slots[c[2]].error]_vars

\* a parser threw on the response for a path an overlapping fetch has stored
\* a table for: the entry is there, and it is the only one
C15_Witness ==
    \E c, d \in CallIds :
        /\ SlotOf(c).status = "failed" /\ SlotOf(c).error = "FormatError"
        /\ SlotOf(d).status = "ok" /\ SlotOf(d).req = SlotOf(c).req
        /\ MapGet(cache, SlotOf(c).req).defined
        /\ MapGet(cache, SlotOf(c).req).value.table \in TableIds
        /\ Len(cache) = 1

RECURSIVE CallsOf(_, _)
CallsOf(slots, k) ==
    IF k > Len(slots) THEN 0 ELSE slots[k].calls + CallsOf(slots, k + 1)

NonEmptyTargets(targets) ==
    Cardinality({k \in 1..Len(targets) : targets[k].path # Empty})

\* C16: no resolution calls the backend's fetch more than once, a cache hit
\* never does, so a query of n non-empty targets causes at most n fetch
\* calls, also when some of them have failed.
C16_NoRetry ==
    \A q \in QueryIds :
        /\ \A i \in 1..Len(queries[q].slots) :
              /\ queries[q].slots[i].calls <= 1
              /\ queries[q].slots[i].how = "hit" => queries[q].slots[i].calls = 0
              /\ queries[q].slots[i].status = "failed" => queries[q].slots[i].calls = 1
        /\ CallsOf(queries[q].slots, 1) <= NonEmptyTargets(queries[q].targets)

\* a query one target of which failed after its one fetch, after a query
\* with a cache hit and a fetch
C16_Witness ==
    \E q, r \in QueryIds :
        /\ \E i \in 1..Len(queries[q].slots) :
              /\ queries[q].slots[i].status = "failed"
              /\ queries[q].slots[i].calls = 1
        /\ queries[q].state = "rejected"
        /\ \E i \in 1..Len(queries[r].slots) : queries[r].slots[i].how = "hit"
        /\ CallsOf(queries[r].slots, 1) < NonEmptyTargets(queries[r].targets)

\* the path without its query string and fragment: what is before the last
\* "?", and of that what is before the last "#"
RECURSIVE DropFromLast(_, _)
DropFromLast(path, ch) ==
    IF path = <<>> THEN <<>>
    ELSE IF path[Len(path)] = ch THEN SubSeq(path, 1, Len(path) - 1)
    ELSE IF \E k \in 1..Len(path) : path[k] = ch
         THEN DropFromLast(SubSeq(path, 1, Len(path) - 1), ch)
         ELSE path
Stripped(path) == DropFromLast(DropFromLast(path, "?"), "#")

\* the extension of a name, in lower case: what follows its last ".", none
\* for a name without "." or with its only "." in front
ExtensionOf(name) ==
    IF \E k \in 2..Len(name) : name[k] = "."
    THEN LET k == CHOOSE k \in 2..Len(name) :
                      name[k] = "." /\ \A j \in (k + 1)..Len(name) : name[j] # "."
         IN  [j \in 1..(Len(name) - k) |-> LowerChar(name[k + j])]
    ELSE <<>>

\* C17: fetch is requested in binary mode exactly when the extension of the
\* path, without its query string from the last "?" and its fragment from the
\* last "#", is "avro" in any case; hence a response the avro parser is chosen
\* for was fetched in binary mode.
C17_BinaryIffAvro ==
    pout.done =>
        /\ pout.isBinary <=> (ExtensionOf(Stripped(pin.path)) = Avro)
        /\ pout.parser = "avro" => pout.isBinary

\* a step in which the pending fetch of call c completes with a table
Completes(c) ==
    /\ SlotOf(c).status = "pending"
    /\ queries'[c[1]].slots[c[2]].status = "ok"

\* C18: the failure of a query cancels none of its fetches: a fetch that
\* completes stores its table also when its query has been rejected, and a
\* query issued while the path has an entry hits it.
C18_NoCancellation ==
    /\ [][\A c \in CallIds :
             Completes(c) =>
                /\ queries'[c[1]].slots[c[2]].table \in TableIds
                /\ MapGet(cache', SlotOf(c).req).defined
                /\ MapGet(cache', SlotOf(c).req).value.table
                      = queries'[c[1]].slots[c[2]].table]_vars
    /\ [][Len(queries') = Len(queries) + 1 =>
             \A i \in 1..Len(queries'[Len(queries')].slots) :
                LET slot == queries'[Len(queries')].slots[i]
                IN  MapGet(cache, slot.req).defined =>
                       /\ slot.how = "hit"
                       /\ slot.status = "ok"
                       /\ slot.table = MapGet(cache, slot.req).value.table]_vars

\* a fetch completed after a failed target had rejected its query, and the
\* next query hits the table it stored.  The fetch completed after the
\* rejection: its table has no value columns, so its changes transform threw,
\* and the query carries the error of the failed fetch and not that one.
C18_Witness ==
    \E q, r \in QueryIds :
        /\ q < r
        /\ queries[q].state = "rejected"
        /\ queries[q].error \in FetchErrors
        /\ \E i, j \in 1..Len(queries[q].slots) :
              /\ queries[q].slots[j].status = "failed"
              /\ queries[q].slots[i].status = "ok"
              /\ queries[q].slots[i].how = "fetch"
              /\ queries[q].slots[i].changes
              /\ queries[q].slots[i].table = "T2"
              /\ \E k \in 1..Len(queries[r].slots) :
                    /\ queries[r].slots[k].how = "hit"
                    /\ queries[r].slots[k].req = queries[q].slots[i].req
                    /\ queries[r].slots[k].table = queries[q].slots[i].table

\* C19: every fetch issued completing or failing in the end, every query
\* settles: it resolves with the flattened data or it is rejected, and does
\* not stay pending forever.
C19_QuerySettles ==
    \A q \in 1..MaxQueries :
        (Len(queries) >= q) ~>
            (/\ Len(queries) >= q
             /\ queries[q].state \in {"resolved", "rejected"}
             /\ queries[q].state = "resolved" =>
                   queries[q].data = FlattenDeep(queries[q].values))

\* every query has settled, one rejected by a failed fetch and one resolved
\* with the data of a fetched table
C19_Witness ==
    /\ \A q \in QueryIds : queries[q].state # "pending" /\ ~AnyPending(q)
    /\ \E q, r \in QueryIds :
          /\ queries[q].state = "rejected"
          /\ queries[q].error \in FetchErrors
          /\ queries[r].state = "resolved"
          /\ Len(queries[r].slots) >= 1
          /\ queries[r].slots[1].how = "fetch"
          /\ queries[r].data # <<>>

=============================================================================
